---------------------------- MODULE Spec2Model ----------------------------
(***************************************************************************)
(* Model of the district selection and styling logic of MapView.tsx and of *)
(* the layer set-up of utils/mapLayers.ts.                                 *)
(*                                                                         *)
(* JavaScript values are tagged records [t, s]: t is the JavaScript type   *)
(* and s the characters of a string (or the decimal digits of a number).   *)
(* Zoom levels are in hundredths (800 is zoom 8.00).  Paint numbers are in *)
(* tenths (4 is 0.4, 25 is 2.5).                                           *)
(***************************************************************************)
EXTENDS Integers, Sequences, FiniteSets, TLC

(***************************************************************************)
(* Bounds of the model.                                                    *)
(***************************************************************************)
\* Largest number of features queryRenderedFeatures returns under one point.
MaxFeatures == 2

\* Largest number of runs of the set-up effect.
MaxSetups == 2

\* Largest number of consecutive runs of the paint derivation, or of the
\* addition of the sources and layers, on one input.
MaxRuns == 2

\* Largest number of layers of the basemap style.
MaxStyleLayers == 2

\* Longest LISTING_NA value drawn from the alphabet of names.
MaxNameLen == 4

(***************************************************************************)
(* JavaScript values.                                                      *)
(***************************************************************************)
Null == [t |-> "null", s |-> <<>>]
Undefined == [t |-> "undefined", s |-> <<>>]
Str(chars) == [t |-> "string", s |-> chars]
Num(digits) == [t |-> "number", s |-> digits]

\* No setState call is waiting in React's update queue.
NoUpdate == [t |-> "no-update", s |-> <<>>]

\* JavaScript truthiness of a value.
Truthy(v) ==
    \/ v.t = "string" /\ v.s # <<>>
    \/ v.t = "number" /\ v.s # <<"0">>

\* JavaScript a || b.
OrElse(a, b) == IF Truthy(a) THEN a ELSE b

\* A value on which .padStart can be called.
HasPadStart(v) == v.t = "string"

(***************************************************************************)
(* Layers, as addMapLayers adds them.                                      *)
(***************************************************************************)
DistrictFill == "congressional-districts-fill"
DistrictLine == "congressional-districts-line"
RoadlessFill == "roadless-fill"
RoadlessLine == "roadless-line"
OregonTrailsLine == "oregon-trails-line"
PctLine == "pct-line"

AllLayers ==
    {RoadlessFill, OregonTrailsLine, RoadlessLine, PctLine, DistrictLine, DistrictFill}

\* minzoom of oregon-trails-line and maxzoom of congressional-districts-fill.
TrailsMinZoom == 800
FillMaxZoom == 800

\* A layer is rendered at zoom z when minzoom <= z < maxzoom.
Rendered(layer, z) ==
    /\ layer = OregonTrailsLine => z >= TrailsMinZoom
    /\ layer = DistrictFill => z < FillMaxZoom

(***************************************************************************)
(* Features.                                                               *)
(***************************************************************************)
NoFeature == [layer |-> "", id |-> 0, DISTRICT |-> Undefined]

\* The district features under the pointer: one with a well-formed DISTRICT
\* and one without the key seen through the fill layer, one with a
\* well-formed and one with a numeric DISTRICT seen through the line layer.
DistrictFeatures ==
    {[layer |-> DistrictFill, id |-> 1, DISTRICT |-> Str(<<"4">>)],
     [layer |-> DistrictFill, id |-> 2, DISTRICT |-> Undefined],
     [layer |-> DistrictLine, id |-> 3, DISTRICT |-> Str(<<"1", "2">>)],
     [layer |-> DistrictLine, id |-> 4, DISTRICT |-> Num(<<"3">>)]}

OtherFeatures ==
    {[layer |-> RoadlessFill, id |-> 5, DISTRICT |-> Undefined],
     [layer |-> RoadlessLine, id |-> 6, DISTRICT |-> Undefined],
     [layer |-> OregonTrailsLine, id |-> 7, DISTRICT |-> Undefined],
     [layer |-> PctLine, id |-> 8, DISTRICT |-> Undefined]}

Features == DistrictFeatures \cup OtherFeatures

\* The lists queryRenderedFeatures can return: features without repetition.
FeatureLists ==
    {fs \in UNION {[1..n -> Features] : n \in 0..MaxFeatures} :
        \A i, j \in 1..Len(fs) : i # j => fs[i] # fs[j]}

\* The features of one layer, in the order of the list (e.features of a
\* layer-bound listener); NoFeature when there is none (e.features[0]).
FirstOfLayer(features, layer) ==
    IF \E i \in 1..Len(features) : features[i].layer = layer
    THEN features[CHOOSE i \in 1..Len(features) :
                    /\ features[i].layer = layer
                    /\ \A j \in 1..(i - 1) : features[j].layer # layer]
    ELSE NoFeature

(***************************************************************************)
(* The layer priority loop of generalClickHandler.                         *)
(***************************************************************************)
layerPriority ==
    <<DistrictFill, DistrictLine, RoadlessFill, OregonTrailsLine, PctLine>>

\* Array.prototype.indexOf, 0-based, -1 when absent.
IndexOf(seq, x) ==
    IF \E i \in 1..Len(seq) : seq[i] = x
    THEN (CHOOSE i \in 1..Len(seq) :
            seq[i] = x /\ \A j \in 1..(i - 1) : seq[j] # x) - 1
    ELSE -1

\* Variant of the loop that compares with >=: the last feature of the highest
\* layer wins.
RECURSIVE PriorityLoopLastWins(_, _, _, _)
PriorityLoopLastWins(features, i, highestPriorityFeature, highestPriorityIndex) ==
    IF i > Len(features)
    THEN highestPriorityFeature
    ELSE LET feature == features[i]
             layerId == feature.layer
             priorityIndex == IndexOf(layerPriority, layerId)
         IN  IF layerId # "" /\ priorityIndex >= highestPriorityIndex
             THEN PriorityLoopLastWins(features, i + 1, feature, priorityIndex)
             ELSE PriorityLoopLastWins(features, i + 1, highestPriorityFeature,
                                       highestPriorityIndex)

RECURSIVE PriorityLoop(_, _, _, _)
PriorityLoop(features, i, highestPriorityFeature, highestPriorityIndex) ==
    IF i > Len(features)
    THEN highestPriorityFeature
    ELSE LET feature == features[i]
             layerId == feature.layer
             priorityIndex == IndexOf(layerPriority, layerId)
         IN  IF layerId # "" /\ priorityIndex > highestPriorityIndex
             THEN PriorityLoop(features, i + 1, feature, priorityIndex)
             ELSE PriorityLoop(features, i + 1, highestPriorityFeature,
                               highestPriorityIndex)

\* Variant of the loop that starts below -1: a feature of a layer outside the
\* order is the result when nothing better is under the point.
HighestPriorityFeatureAdmitsUnlisted(features) ==
    PriorityLoop(features, 1, NoFeature, -2)

HighestPriorityFeature(features) == PriorityLoop(features, 1, NoFeature, -1)

(***************************************************************************)
(* Paint.  A paint value is a constant or the expression                   *)
(* ["case", ["==", ["get", "DISTRICT"], d], a, b].                         *)
(***************************************************************************)
Const(v) == [kind |-> "const", d |-> Null, a |-> v, b |-> v]
CaseDistrict(d, a, b) == [kind |-> "case", d |-> d, a |-> a, b |-> b]

\* The paint addMapLayers gives the two district layers.
InitialPaint ==
    [fillOpacity |-> Const(1), lineOpacity |-> Const(8), lineWidth |-> Const(15)]

\* Zoom up to which the selection is shown (currentZoom <= 8).
ZoomThreshold == 800

\* m.setPaintProperty on a layer that m.getLayer reports.
SetFill(p, present, fo) ==
    IF DistrictFill \in present THEN [p EXCEPT !.fillOpacity = fo] ELSE p

SetLine(p, present, lo, lw) ==
    IF DistrictLine \in present
    THEN [p EXCEPT !.lineOpacity = lo, !.lineWidth = lw]
    ELSE p

\* Variant of the effect with a hidden mutation: every run widens the line.
StylingEffectWidens(p, present, sel, currentZoom) ==
    SetLine(p, present, p.lineOpacity,
            [p.lineWidth EXCEPT !.a = IF @ < 25 THEN @ + 10 ELSE @])

\* Variant of the effect that tests currentZoom < 8.
StylingEffectStrictThreshold(p, present, sel, currentZoom) ==
    IF currentZoom < ZoomThreshold /\ Truthy(sel)
    THEN SetLine(SetFill(p, present, CaseDistrict(sel, 4, 1)), present,
                 CaseDistrict(sel, 10, 8), CaseDistrict(sel, 25, 15))
    ELSE SetLine(SetFill(p, present, Const(1)), present, Const(8), Const(15))

\* The effect on [selectedDistrictId, ready, map]: the paint it leaves.
StylingEffect(p, present, sel, currentZoom) ==
    IF currentZoom <= ZoomThreshold
    THEN LET p1 == IF Truthy(sel)
                   THEN SetFill(p, present, CaseDistrict(sel, 4, 1))
                   ELSE SetFill(p, present, Const(1))
         IN  IF Truthy(sel)
             THEN SetLine(p1, present, CaseDistrict(sel, 10, 8),
                          CaseDistrict(sel, 25, 15))
             ELSE SetLine(p1, present, Const(8), Const(15))
    ELSE SetLine(SetFill(p, present, Const(1)), present, Const(8), Const(15))

\* Variant of handleZoomChange that sets the fill opacity without asking
\* m.getLayer for the fill layer.
HandleZoomChangeNoGetLayer(p, present, sel, currentZoom) ==
    IF currentZoom <= ZoomThreshold /\ Truthy(sel)
    THEN SetLine([p EXCEPT !.fillOpacity = CaseDistrict(sel, 4, 1)], present,
                 CaseDistrict(sel, 10, 8), CaseDistrict(sel, 25, 15))
    ELSE SetLine([p EXCEPT !.fillOpacity = Const(1)], present,
                 Const(8), Const(15))

\* handleZoomChange, with the selectedDistrictId its closure holds.
HandleZoomChange(p, present, sel, currentZoom) ==
    IF currentZoom <= ZoomThreshold
    THEN IF Truthy(sel)
         THEN SetLine(SetFill(p, present, CaseDistrict(sel, 4, 1)), present,
                      CaseDistrict(sel, 10, 8), CaseDistrict(sel, 25, 15))
         ELSE SetLine(SetFill(p, present, Const(1)), present, Const(8), Const(15))
    ELSE SetLine(SetFill(p, present, Const(1)), present, Const(8), Const(15))

(***************************************************************************)
(* State.                                                                  *)
(***************************************************************************)
VARIABLES
    selectedDistrictId,  \* the React state the effects and closures see
    pendingUpdate,       \* the value of the last setSelectedDistrictId call
                         \* React has not rendered yet, or NoUpdate
    zoomHandlerSel,      \* selectedDistrictId in the closure of the
                         \* registered handleZoomChange
    zoom,                \* m.getZoom(), in hundredths
    paint,               \* paint installed on the two district layers
    layers,              \* ids of the layers of the map
    popup,               \* the popup: its content, kind "none" when closed
    cursor,              \* m.getCanvas().style.cursor
    dispatch,            \* listeners still to be called for the click
                         \* being delivered
    clickFeatures,       \* m.queryRenderedFeatures(e.point) of that click
    resolved,            \* highestPriorityFeature of that click
    error,               \* exception thrown by a listener of the last event
    calls,               \* the functions of the component run by the last step
    lastEvent,           \* kind of the last event delivered
    prevSel,             \* selectedDistrictId when that event arrived
    listeners,           \* the listeners attached to the map and to the popups
    setups,              \* number of times the set-up effect has run
    phase,               \* "attached": the effects have run; "detached": their
                         \* cleanups have run and the component is mounted;
                         \* "unmounted"
    stalePopup,          \* a popup of an earlier set-up is still on the map
    arg,                 \* input of the function under examination
    out                  \* the results of its runs

vars ==
    <<selectedDistrictId, pendingUpdate, zoomHandlerSel, zoom, paint, layers,
      popup, cursor, dispatch, clickFeatures, resolved, error, calls,
      lastEvent, prevSel, listeners, setups, phase, stalePopup, arg, out>>

lifecycleVars == <<listeners, setups, phase, stalePopup>>
harnessVars == <<arg, out>>

ZoomLevels == {500, 800, 801}

PopupClosed == [kind |-> "none", feature |-> NoFeature]

\* What a listener reads and writes besides the map: the popup, React's
\* update queue, the feature it resolved, the exception it throws; calls
\* collects the functions run.
HandlerState ==
    [popup |-> popup, pending |-> pendingUpdate, resolved |-> NoFeature,
     error |-> "none", calls |-> {}]

Called(hs, fn) == [hs EXCEPT !.calls = @ \cup {fn}]

(***************************************************************************)
(* The popup and its close listener.                                       *)
(***************************************************************************)
SetSelectedDistrictId(hs, v) == [hs EXCEPT !.pending = v]

\* Variant of the close listener that leaves the selection alone.
OnPopupCloseKeepsSelection(hs) == Called(hs, "popup.close")

\* popup.on("close", ...).
OnPopupClose(hs) == SetSelectedDistrictId(Called(hs, "popup.close"), Null)

\* popup.remove(): takes the popup off the map and fires "close".
PopupRemove(hs) == OnPopupClose([hs EXCEPT !.popup = PopupClosed])

\* popup.setLngLat(..).setHTML(..).addTo(m): a popup already on the map is
\* removed first, which fires "close".
PopupAddTo(hs, content) ==
    LET h1 == IF hs.popup.kind # "none" THEN PopupRemove(hs) ELSE hs
    IN  [h1 EXCEPT !.popup = content]

(***************************************************************************)
(* The listeners.                                                          *)
(***************************************************************************)
\* onClick, bound to roadless-fill.
OnClick(hs, features) ==
    LET f == FirstOfLayer(features, RoadlessFill)
        h1 == Called(hs, "onClick")
    IN  IF f = NoFeature
        THEN h1
        ELSE PopupAddTo(h1, [kind |-> "area", feature |-> f])

\* onTrailClick, bound to pct-line and oregon-trails-line.
OnTrailClick(hs, features, layer) ==
    LET f == FirstOfLayer(features, layer)
        h1 == Called(hs, "onTrailClick")
    IN  IF f = NoFeature
        THEN h1
        ELSE PopupAddTo(h1, [kind |-> "trail", feature |-> f])

Unknown == Str(<<"U", "n", "k", "n", "o", "w", "n">>)

\* highestPriorityFeature.id?.toString() of the features of the model.
FeatureIdString(f) == Str(<<(<<"1", "2", "3", "4", "5", "6", "7", "8">>)[f.id]>>)

\* Variant of generalClickHandler that selects by feature id, not by DISTRICT.
GeneralClickHandlerSelectsFeatureId(hs, features) ==
    LET highestPriorityFeature == HighestPriorityFeature(features)
        h0 == [Called(hs, "generalClickHandler")
                  EXCEPT !.resolved = highestPriorityFeature]
    IN  IF /\ highestPriorityFeature # NoFeature
           /\ highestPriorityFeature.layer \in {DistrictLine, DistrictFill}
        THEN LET props == highestPriorityFeature
                 h1 == SetSelectedDistrictId(h0,
                           FeatureIdString(highestPriorityFeature))
                 districtNumber == OrElse(props.DISTRICT, Unknown)
             IN  IF HasPadStart(districtNumber)
                 THEN PopupAddTo(h1, [kind |-> "district",
                                      feature |-> highestPriorityFeature])
                 ELSE [h1 EXCEPT !.error = "TypeError"]
        ELSE SetSelectedDistrictId(h0, Null)

\* Variant of generalClickHandler without the else branch that clears the
\* selection.
GeneralClickHandlerKeepsSelection(hs, features) ==
    LET highestPriorityFeature == HighestPriorityFeature(features)
        h0 == [Called(hs, "generalClickHandler")
                  EXCEPT !.resolved = highestPriorityFeature]
    IN  IF /\ highestPriorityFeature # NoFeature
           /\ highestPriorityFeature.layer \in {DistrictLine, DistrictFill}
        THEN LET props == highestPriorityFeature
                 selectedDistrictNumber == OrElse(props.DISTRICT, Null)
                 h1 == SetSelectedDistrictId(h0, selectedDistrictNumber)
                 districtNumber == OrElse(props.DISTRICT, Unknown)
             IN  IF HasPadStart(districtNumber)
                 THEN PopupAddTo(h1, [kind |-> "district",
                                      feature |-> highestPriorityFeature])
                 ELSE [h1 EXCEPT !.error = "TypeError"]
        ELSE h0

\* Variant of generalClickHandler that builds the popup first and selects
\* the district only when that succeeded.
GeneralClickHandlerSelectsAfterPopup(hs, features) ==
    LET highestPriorityFeature == HighestPriorityFeature(features)
        h0 == [Called(hs, "generalClickHandler")
                  EXCEPT !.resolved = highestPriorityFeature]
    IN  IF /\ highestPriorityFeature # NoFeature
           /\ highestPriorityFeature.layer \in {DistrictLine, DistrictFill}
        THEN LET props == highestPriorityFeature
                 selectedDistrictNumber == OrElse(props.DISTRICT, Null)
                 districtNumber == OrElse(props.DISTRICT, Unknown)
             IN  IF HasPadStart(districtNumber)
                 THEN PopupAddTo(SetSelectedDistrictId(h0, selectedDistrictNumber),
                                 [kind |-> "district",
                                  feature |-> highestPriorityFeature])
                 ELSE [h0 EXCEPT !.error = "TypeError"]
        ELSE SetSelectedDistrictId(h0, Null)

GeneralClickHandler(hs, features) ==
    LET highestPriorityFeature == HighestPriorityFeature(features)
        h0 == [Called(hs, "generalClickHandler")
                  EXCEPT !.resolved = highestPriorityFeature]
    IN  IF /\ highestPriorityFeature # NoFeature
           /\ highestPriorityFeature.layer \in {DistrictLine, DistrictFill}
        THEN LET props == highestPriorityFeature
                 selectedDistrictNumber == OrElse(props.DISTRICT, Null)
                 h1 == SetSelectedDistrictId(h0, selectedDistrictNumber)
                 districtNumber == OrElse(props.DISTRICT, Unknown)
             IN  \* districtNumber.padStart(2, "0") throws on a non-string
                 IF HasPadStart(districtNumber)
                 THEN PopupAddTo(h1, [kind |-> "district",
                                      feature |-> highestPriorityFeature])
                 ELSE [h1 EXCEPT !.error = "TypeError"]
        ELSE SetSelectedDistrictId(h0, Null)

(***************************************************************************)
(* The listeners.  A listener is attached for an event type and, for the   *)
(* layer-bound ones, a layer; setup tells the run of the effect that       *)
(* created the function: m.off removes a listener only when it is given    *)
(* the function m.on was given.                                            *)
(***************************************************************************)
Listener(type, layer, fn, n) ==
    [type |-> type, layer |-> layer, fn |-> fn, setup |-> n]

\* popup.on("close", ...) of the popup the n-th set-up creates.
PopupOn(n) == {Listener("close", "", "popup.close", n)}

\* The m.on calls of the n-th set-up.
SetupOn(n) ==
    {Listener("mouseenter", RoadlessFill, "onEnter", n),
     Listener("mouseleave", RoadlessFill, "onLeave", n),
     Listener("click", RoadlessFill, "onClick", n),
     Listener("mouseenter", PctLine, "onEnter", n),
     Listener("mouseleave", PctLine, "onLeave", n),
     Listener("click", PctLine, "onTrailClick", n),
     Listener("mouseenter", OregonTrailsLine, "onEnter", n),
     Listener("mouseleave", OregonTrailsLine, "onLeave", n),
     Listener("click", OregonTrailsLine, "onTrailClick", n),
     Listener("mouseenter", DistrictLine, "onEnter", n),
     Listener("mouseleave", DistrictLine, "onLeave", n),
     Listener("mouseenter", DistrictFill, "onEnter", n),
     Listener("mouseleave", DistrictFill, "onLeave", n),
     Listener("click", "", "generalClickHandler", n)}

\* The m.off calls of the cleanup of the n-th set-up.
CleanupOff(n) ==
    {Listener("mouseenter", RoadlessFill, "onEnter", n),
     Listener("mouseleave", RoadlessFill, "onLeave", n),
     Listener("click", RoadlessFill, "onClick", n),
     Listener("mouseenter", PctLine, "onEnter", n),
     Listener("mouseleave", PctLine, "onLeave", n),
     Listener("click", PctLine, "onTrailClick", n),
     Listener("mouseenter", OregonTrailsLine, "onEnter", n),
     Listener("mouseleave", OregonTrailsLine, "onLeave", n),
     Listener("click", OregonTrailsLine, "onTrailClick", n),
     Listener("mouseenter", DistrictLine, "onEnter", n),
     Listener("mouseleave", DistrictLine, "onLeave", n),
     Listener("mouseenter", DistrictFill, "onEnter", n),
     Listener("mouseleave", DistrictFill, "onLeave", n),
     Listener("click", "", "generalClickHandler", n)}

\* m.on("zoom", handleZoomChange) and the m.off of the zoom effect's cleanup.
ZoomOn(n) == {Listener("zoom", "", "handleZoomChange", n)}
ZoomOff(n) == {Listener("zoom", "", "handleZoomChange", n)}

Registered(type, layer) ==
    \E l \in listeners : l.type = type /\ l.layer = layer

\* No function is under examination.
NoArg == [fn |-> "none"]

(***************************************************************************)
(* Initial state: the component is mounted, the map is ready and the three *)
(* effects have run once.                                                  *)
(***************************************************************************)
Init ==
    /\ selectedDistrictId = Null
    /\ pendingUpdate = NoUpdate
    /\ zoomHandlerSel = Null
    /\ zoom \in ZoomLevels
    /\ layers = AllLayers
    /\ paint = StylingEffect(InitialPaint, AllLayers, Null, zoom)
    /\ popup = PopupClosed
    /\ cursor = ""
    /\ dispatch = <<>>
    /\ clickFeatures = <<>>
    /\ resolved = NoFeature
    /\ error = "none"
    /\ calls = {}
    /\ lastEvent = "mount"
    /\ prevSel = Null
    /\ listeners = SetupOn(1) \cup PopupOn(1) \cup ZoomOn(1)
    /\ setups = 1
    /\ phase = "attached"
    /\ stalePopup = FALSE
    /\ arg = NoArg
    /\ out = <<>>

(***************************************************************************)
(* Events.                                                                 *)
(***************************************************************************)
Install(hs) ==
    /\ popup' = hs.popup
    /\ pendingUpdate' = hs.pending
    /\ error' = hs.error
    /\ calls' = hs.calls

\* The click listeners in the order of their registration.
LayerListeners == <<RoadlessFill, PctLine, OregonTrailsLine>>

HasLayer(features, layer) == FirstOfLayer(features, layer) # NoFeature

\* The listeners the map calls for a click: the one of a popup on the map
\* (closeOnClick), each attached layer-bound listener whose layer has a
\* feature under the point, and generalClickHandler when attached.
ListenersFor(features, pop) ==
    (IF pop.kind # "none" \/ stalePopup THEN <<"preclick">> ELSE <<>>)
    \o SelectSeq(LayerListeners,
                 LAMBDA l : HasLayer(features, l) /\ Registered("click", l))
    \o (IF Registered("click", "") THEN <<"click">> ELSE <<>>)

\* The user clicks the map: the map queries the rendered features.
Click(features) ==
    /\ dispatch = <<>>
    /\ \A i \in 1..Len(features) :
          /\ features[i].layer \in layers
          /\ Rendered(features[i].layer, zoom)
    /\ clickFeatures' = features
    /\ dispatch' = ListenersFor(features, popup)
    /\ resolved' = NoFeature
    /\ error' = "none"
    /\ calls' = {}
    /\ lastEvent' = "click"
    /\ prevSel' = selectedDistrictId
    /\ UNCHANGED <<selectedDistrictId, pendingUpdate, zoomHandlerSel, zoom,
                   paint, layers, popup, cursor, lifecycleVars, harnessVars>>

\* closeOnClick: the popups on the map are removed before the click
\* listeners run.
Preclick ==
    /\ dispatch # <<>>
    /\ Head(dispatch) = "preclick"
    /\ Install(PopupRemove(HandlerState))
    /\ stalePopup' = FALSE
    /\ dispatch' = Tail(dispatch)
    /\ UNCHANGED <<selectedDistrictId, zoomHandlerSel, zoom, paint, layers,
                   cursor, clickFeatures, resolved, lastEvent, prevSel,
                   listeners, setups, phase, harnessVars>>

AreaClick ==
    /\ dispatch # <<>>
    /\ Head(dispatch) = RoadlessFill
    /\ Install(OnClick(HandlerState, clickFeatures))
    /\ dispatch' = Tail(dispatch)
    /\ UNCHANGED <<selectedDistrictId, zoomHandlerSel, zoom, paint, layers,
                   cursor, clickFeatures, resolved, lastEvent, prevSel,
                   lifecycleVars, harnessVars>>

TrailClick ==
    /\ dispatch # <<>>
    /\ Head(dispatch) \in {PctLine, OregonTrailsLine}
    /\ Install(OnTrailClick(HandlerState, clickFeatures, Head(dispatch)))
    /\ dispatch' = Tail(dispatch)
    /\ UNCHANGED <<selectedDistrictId, zoomHandlerSel, zoom, paint, layers,
                   cursor, clickFeatures, resolved, lastEvent, prevSel,
                   lifecycleVars, harnessVars>>

GeneralClick ==
    /\ dispatch # <<>>
    /\ Head(dispatch) = "click"
    /\ LET hs == GeneralClickHandler(HandlerState, clickFeatures)
       IN  Install(hs) /\ resolved' = hs.resolved
    /\ dispatch' = Tail(dispatch)
    /\ UNCHANGED <<selectedDistrictId, zoomHandlerSel, zoom, paint, layers,
                   cursor, clickFeatures, lastEvent, prevSel, lifecycleVars,
                   harnessVars>>

\* The user closes the popup with its close button.
PopupCloseButton ==
    /\ dispatch = <<>>
    /\ popup.kind # "none"
    /\ Install(PopupRemove(HandlerState))
    /\ clickFeatures' = <<>>
    /\ resolved' = NoFeature
    /\ lastEvent' = "close"
    /\ prevSel' = selectedDistrictId
    /\ UNCHANGED <<selectedDistrictId, zoomHandlerSel, zoom, paint, layers,
                   cursor, dispatch, lifecycleVars, harnessVars>>

\* The map's zoom changes to z and the map fires "zoom".
ZoomChange(z) ==
    /\ dispatch = <<>>
    /\ z # zoom
    /\ zoom' = z
    /\ IF Registered("zoom", "")
       THEN /\ paint' = HandleZoomChange(paint, layers, zoomHandlerSel, z)
            /\ calls' = {"handleZoomChange"}
       ELSE /\ paint' = paint
            /\ calls' = {}
    /\ clickFeatures' = <<>>
    /\ resolved' = NoFeature
    /\ error' = "none"
    /\ lastEvent' = "zoom"
    /\ prevSel' = selectedDistrictId
    /\ UNCHANGED <<selectedDistrictId, pendingUpdate, zoomHandlerSel, layers,
                   popup, cursor, dispatch, lifecycleVars, harnessVars>>

\* The layers with mouseenter and mouseleave listeners.
HoverLayers == {RoadlessFill, PctLine, OregonTrailsLine, DistrictLine, DistrictFill}

MouseEnter(layer) ==
    /\ dispatch = <<>>
    /\ layer \in layers
    /\ Rendered(layer, zoom)
    /\ Registered("mouseenter", layer)
    /\ cursor' = "pointer"
    /\ clickFeatures' = <<>>
    /\ resolved' = NoFeature
    /\ error' = "none"
    /\ calls' = {"onEnter"}
    /\ lastEvent' = "mouseenter"
    /\ prevSel' = selectedDistrictId
    /\ UNCHANGED <<selectedDistrictId, pendingUpdate, zoomHandlerSel, zoom,
                   paint, layers, popup, dispatch, lifecycleVars, harnessVars>>

\* Variant of onLeave that also clears the selection.
MouseLeaveClearsSelection(layer) ==
    /\ dispatch = <<>>
    /\ layer \in layers
    /\ Rendered(layer, zoom)
    /\ Registered("mouseleave", layer)
    /\ cursor' = ""
    /\ pendingUpdate' = Null
    /\ clickFeatures' = <<>>
    /\ resolved' = NoFeature
    /\ error' = "none"
    /\ calls' = {"onLeave"}
    /\ lastEvent' = "mouseleave"
    /\ prevSel' = selectedDistrictId
    /\ UNCHANGED <<selectedDistrictId, zoomHandlerSel, zoom, paint, layers,
                   popup, dispatch, lifecycleVars, harnessVars>>

MouseLeave(layer) ==
    /\ dispatch = <<>>
    /\ layer \in layers
    /\ Rendered(layer, zoom)
    /\ Registered("mouseleave", layer)
    /\ cursor' = ""
    /\ clickFeatures' = <<>>
    /\ resolved' = NoFeature
    /\ error' = "none"
    /\ calls' = {"onLeave"}
    /\ lastEvent' = "mouseleave"
    /\ prevSel' = selectedDistrictId
    /\ UNCHANGED <<selectedDistrictId, pendingUpdate, zoomHandlerSel, zoom,
                   paint, layers, popup, dispatch, lifecycleVars, harnessVars>>

\* Variant in which the zoom effect does not depend on selectedDistrictId:
\* the registered handleZoomChange keeps its first closure.
FlushEffectsStaleZoomHandler ==
    /\ dispatch = <<>>
    /\ phase # "unmounted"
    /\ pendingUpdate # NoUpdate
    /\ pendingUpdate' = NoUpdate
    /\ calls' = {"effects"}
    /\ IF pendingUpdate = selectedDistrictId
       THEN UNCHANGED <<selectedDistrictId, paint>>
       ELSE /\ selectedDistrictId' = pendingUpdate
            /\ paint' = IF phase = "attached"
                        THEN StylingEffect(paint, layers, pendingUpdate, zoom)
                        ELSE paint
    /\ UNCHANGED <<zoomHandlerSel, zoom, layers, popup, cursor, dispatch,
                   clickFeatures, resolved, error, lastEvent, prevSel,
                   lifecycleVars, harnessVars>>

\* Variant in which the styling effect does not depend on selectedDistrictId:
\* a selection change installs no paint.
FlushEffectsSkipsStyling ==
    /\ dispatch = <<>>
    /\ phase # "unmounted"
    /\ pendingUpdate # NoUpdate
    /\ pendingUpdate' = NoUpdate
    /\ calls' = {"effects"}
    /\ IF pendingUpdate = selectedDistrictId
       THEN UNCHANGED <<selectedDistrictId, zoomHandlerSel>>
       ELSE /\ selectedDistrictId' = pendingUpdate
            /\ zoomHandlerSel' = IF phase = "attached"
                                 THEN pendingUpdate
                                 ELSE zoomHandlerSel
    /\ UNCHANGED <<paint, zoom, layers, popup, cursor, dispatch,
                   clickFeatures, resolved, error, lastEvent, prevSel,
                   lifecycleVars, harnessVars>>

\* React renders the queued update and runs the effects whose dependency
\* selectedDistrictId changed: the styling effect, and the zoom effect, which
\* registers a handleZoomChange closed over the new value.  An update to the
\* value the state already has changes nothing.  The effects run after the
\* listener that queued the update has returned; other events may be
\* delivered before they do.  While the effects are cleaned up (ready is
\* false or map is null) both return at once: the state changes alone.
FlushEffects ==
    /\ dispatch = <<>>
    /\ phase # "unmounted"
    /\ pendingUpdate # NoUpdate
    /\ pendingUpdate' = NoUpdate
    /\ calls' = {"effects"}
    /\ IF pendingUpdate = selectedDistrictId
       THEN UNCHANGED <<selectedDistrictId, paint, zoomHandlerSel>>
       ELSE /\ selectedDistrictId' = pendingUpdate
            /\ IF phase = "attached"
               THEN /\ paint' = StylingEffect(paint, layers, pendingUpdate, zoom)
                    /\ zoomHandlerSel' = pendingUpdate
               ELSE UNCHANGED <<paint, zoomHandlerSel>>
    /\ UNCHANGED <<zoom, layers, popup, cursor, dispatch, clickFeatures,
                   resolved, error, lastEvent, prevSel, lifecycleVars,
                   harnessVars>>

Next ==
    \/ \E features \in FeatureLists : Click(features)
    \/ Preclick
    \/ AreaClick
    \/ TrailClick
    \/ GeneralClick
    \/ PopupCloseButton
    \/ \E z \in ZoomLevels : ZoomChange(z)
    \/ \E layer \in HoverLayers : MouseEnter(layer)
    \/ \E layer \in HoverLayers : MouseLeave(layer)
    \/ FlushEffects

Spec == Init /\ [][Next]_vars

(***************************************************************************)
(* The life cycle: the cleanups of the effects run when ready or map       *)
(* changes or when the component unmounts, and the effects run again when  *)
(* the map is ready again.                                                 *)
(***************************************************************************)
\* The cleanups of the set-up effect and of the zoom effect.  The popup is
\* neither removed from the map nor are its listeners: an open popup stays
\* on the map.  React has rendered every queued update before.
Cleanup(after) ==
    /\ phase = "attached"
    /\ dispatch = <<>>
    /\ pendingUpdate = NoUpdate
    /\ listeners' = (listeners \ CleanupOff(setups)) \ ZoomOff(setups)
    /\ phase' = after
    /\ stalePopup' = (stalePopup \/ popup.kind # "none")
    /\ popup' = PopupClosed
    /\ clickFeatures' = <<>>
    /\ resolved' = NoFeature
    /\ error' = "none"
    /\ calls' = {"cleanup"}
    /\ lastEvent' = "teardown"
    /\ prevSel' = selectedDistrictId
    /\ UNCHANGED <<selectedDistrictId, pendingUpdate, zoomHandlerSel, zoom,
                   paint, layers, cursor, dispatch, setups, harnessVars>>

\* ready or map changed: the cleanups run and the component stays mounted.
Teardown == Cleanup("detached")

\* The component unmounts.
Unmount == Cleanup("unmounted")

\* The map is ready again: the three effects run, with a new popup and new
\* functions.
Setup ==
    /\ phase = "detached"
    /\ dispatch = <<>>
    /\ setups < MaxSetups
    /\ setups' = setups + 1
    /\ listeners' = listeners \cup SetupOn(setups + 1) \cup PopupOn(setups + 1)
                       \cup ZoomOn(setups + 1)
    /\ phase' = "attached"
    /\ popup' = PopupClosed
    /\ paint' = StylingEffect(paint, layers, selectedDistrictId, zoom)
    /\ zoomHandlerSel' = selectedDistrictId
    /\ clickFeatures' = <<>>
    /\ resolved' = NoFeature
    /\ error' = "none"
    /\ calls' = {"setup"}
    /\ lastEvent' = "setup"
    /\ prevSel' = selectedDistrictId
    /\ UNCHANGED <<selectedDistrictId, pendingUpdate, zoom, layers, cursor,
                   dispatch, stalePopup, harnessVars>>

\* The user closes, with its close button, a popup an earlier set-up left on
\* the map: its close listener runs.
StalePopupCloseButton ==
    /\ dispatch = <<>>
    /\ stalePopup
    /\ stalePopup' = FALSE
    /\ IF Registered("close", "")
       THEN Install(OnPopupClose(HandlerState))
       ELSE Install(HandlerState)
    /\ clickFeatures' = <<>>
    /\ resolved' = NoFeature
    /\ lastEvent' = "close"
    /\ prevSel' = selectedDistrictId
    /\ UNCHANGED <<selectedDistrictId, zoomHandlerSel, zoom, paint, layers,
                   cursor, dispatch, listeners, setups, phase, harnessVars>>

\* React ignores a state update of an unmounted component.
DropUpdate ==
    /\ phase = "unmounted"
    /\ dispatch = <<>>
    /\ pendingUpdate # NoUpdate
    /\ pendingUpdate' = NoUpdate
    /\ calls' = {}
    /\ UNCHANGED <<selectedDistrictId, zoomHandlerSel, zoom, paint, layers,
                   popup, cursor, dispatch, clickFeatures, resolved, error,
                   lastEvent, prevSel, lifecycleVars, harnessVars>>

LifecycleNext ==
    \/ Next
    \/ Teardown
    \/ Unmount
    \/ Setup
    \/ StalePopupCloseButton
    \/ DropUpdate

SpecLifecycle == Init /\ [][LifecycleNext]_vars

(***************************************************************************)
(* The content of the district popup.  Strings are sequences of            *)
(* characters.                                                             *)
(***************************************************************************)
UnknownRepresentative ==
    Str(<<"U", "n", "k", "n", "o", "w", "n", " ", "R", "e", "p", "r",
          "e", "s", "e", "n", "t", "a", "t", "i", "v", "e">>)

\* Variant of padStart that pads at the end.
RECURSIVE PadStartAppends(_, _, _)
PadStartAppends(chars, targetLength, padChar) ==
    IF Len(chars) >= targetLength
    THEN chars
    ELSE PadStartAppends(chars \o <<padChar>>, targetLength, padChar)

\* String.prototype.padStart with a pad string of one character.
RECURSIVE PadStart(_, _, _)
PadStart(chars, targetLength, padChar) ==
    IF Len(chars) >= targetLength
    THEN chars
    ELSE PadStart(<<padChar>> \o chars, targetLength, padChar)

\* String.prototype.indexOf, 1-based, 0 when sub does not occur in chars.
IndexOfSub(chars, sub) ==
    LET at == {i \in 1..(Len(chars) - Len(sub) + 1) :
                  SubSeq(chars, i, i + Len(sub) - 1) = sub}
    IN  IF at = {} THEN 0 ELSE CHOOSE i \in at : \A j \in at : i <= j

\* String.prototype.split with a separator that is not empty.
RECURSIVE Split(_, _)
Split(chars, sep) ==
    LET i == IndexOfSub(chars, sep)
    IN  IF i = 0
        THEN <<chars>>
        ELSE <<SubSeq(chars, 1, i - 1)>>
             \o Split(SubSeq(chars, i + Len(sep), Len(chars)), sep)

\* Variant that takes the first two parts whenever there are at least two.
FormatRepresentativeNameAnyParts(representativeNameRaw) ==
    IF representativeNameRaw # UnknownRepresentative
    THEN LET nameParts == Split(representativeNameRaw.s, <<",", " ">>)
         IN  IF Len(nameParts) >= 2
             THEN Str(nameParts[2] \o <<" ">> \o nameParts[1])
             ELSE representativeNameRaw
    ELSE UnknownRepresentative

\* formattedRepresentativeName of generalClickHandler, for a raw name that is
\* a string.
FormatRepresentativeName(representativeNameRaw) ==
    IF representativeNameRaw # UnknownRepresentative
    THEN LET nameParts == Split(representativeNameRaw.s, <<",", " ">>)
         IN  IF Len(nameParts) = 2
             THEN LET lastName == nameParts[1]
                      firstName == nameParts[2]
                  IN  Str(firstName \o <<" ">> \o lastName)
             ELSE representativeNameRaw
    ELSE UnknownRepresentative

\* What generalClickHandler computes for the popup from DISTRICT and
\* LISTING_NA: the district number of the title, the representative and the
\* zero-padded district of the label; padStart throws on a non-string.
DistrictPopupContent(props) ==
    LET representativeNameRaw == OrElse(props.LISTING_NA, UnknownRepresentative)
        districtNumber == OrElse(props.DISTRICT, Unknown)
        formattedRepresentativeName ==
            FormatRepresentativeName(representativeNameRaw)
    IN  IF HasPadStart(districtNumber)
        THEN [error |-> "none",
              districtNumber |-> districtNumber,
              representative |-> formattedRepresentativeName,
              padded |-> Str(PadStart(districtNumber.s, 2, "0"))]
        ELSE [error |-> "TypeError",
              districtNumber |-> districtNumber,
              representative |-> formattedRepresentativeName,
              padded |-> Undefined]

(***************************************************************************)
(* The content of the roadless area popup.                                 *)
(***************************************************************************)
\* The candidate keys of config.ts, in their order.
NAME_KEYS == <<"NAME", "AREA_NAME">>
ID_KEYS == <<"OBJECTID_1", "ID">>

UnnamedArea == Str(<<"U", "n", "n", "a", "m", "e", "d", " ", "a", "r", "e", "a">>)

\* The text shown for a quantity that could not be computed: the dash U+2014,
\* written here with the two characters "--".
Sentinel == Str(<<"-", "-">>)

\* Array.prototype.find with the test props[k] !== undefined: the first key
\* of keys, from position i on, that props has; "" (undefined) when none.
RECURSIVE Find(_, _, _)
Find(keys, props, i) ==
    IF i > Len(keys)
    THEN ""
    ELSE IF props[keys[i]] # Undefined
         THEN keys[i]
         ELSE Find(keys, props, i + 1)

\* String(v).
StringOf(v) ==
    CASE v.t = "string" -> v
      [] v.t = "number" -> Str(v.s)
      [] v.t = "null" -> Str(<<"n", "u", "l", "l">>)
      [] OTHER -> Str(<<"u", "n", "d", "e", "f", "i", "n", "e", "d">>)

\* Variant of the name and id resolution in which the id is looked up only
\* when a name key was found.
ClassifyAreaCoupled(props) ==
    LET nameKey == Find(NAME_KEYS, props, 1)
        idKey == IF nameKey # "" THEN Find(ID_KEYS, props, 1) ELSE ""
    IN  [name |-> IF nameKey # "" THEN StringOf(props[nameKey]) ELSE UnnamedArea,
         uid |-> IF idKey # "" THEN StringOf(props[idKey]) ELSE Null]

\* name and uid of onClick.
ClassifyArea(props) ==
    LET nameKey == Find(NAME_KEYS, props, 1)
        idKey == Find(ID_KEYS, props, 1)
    IN  [name |-> IF nameKey # "" THEN StringOf(props[nameKey]) ELSE UnnamedArea,
         uid |-> IF idKey # "" THEN StringOf(props[idKey]) ELSE Null]

\* The decimal digits of a natural number.
RECURSIVE Digits(_)
Digits(n) ==
    IF n < 10
    THEN <<(<<"0", "1", "2", "3", "4", "5", "6", "7", "8", "9">>)[n + 1]>>
    ELSE Digits(n \div 10) \o Digits(n % 10)

\* toLocaleString("en-US") of a natural number: groups of three digits.
RECURSIVE LocaleInteger(_)
LocaleInteger(n) ==
    IF n < 1000
    THEN Digits(n)
    ELSE LocaleInteger(n \div 1000) \o <<",">>
         \o PadStart(Digits(n % 1000), 3, "0")

\* What turf.area does on a geometry: it throws, or returns NaN, Infinity or
\* a finite area.  A finite area is counted in tenths of an acre, that is in
\* units of 404.68564224 square metres, so that m2 / 4046.8564224 is exact.
AreaResults ==
    {[t |-> "throws", tenths |-> 0], [t |-> "NaN", tenths |-> 0],
     [t |-> "Infinity", tenths |-> 0]}
    \cup {[t |-> "finite", tenths |-> k] : k \in {0, 4, 5, 12344, 12345}}

\* acresTxt of onClick: the try block around turf.area, the division and
\* toLocaleString with maximumFractionDigits 0.
AcresText(m2) ==
    IF m2.t = "throws"
    THEN Sentinel
    ELSE LET acres == m2
         IN  IF acres.t = "finite"
             THEN Str(LocaleInteger((acres.tenths + 5) \div 10))
             ELSE Sentinel

\* The arguments of buildPopupHTML in onClick.
AreaPopupContent(props, m2) ==
    LET c == ClassifyArea(props)
    IN  [name |-> c.name, uid |-> c.uid, acresTxt |-> AcresText(m2)]

(***************************************************************************)
(* The content of the trail popup.                                         *)
(***************************************************************************)
PctTrailName ==
    Str(<<"P", "a", "c", "i", "f", "i", "c", " ", "C", "r", "e", "s",
          "t", " ", "T", "r", "a", "i", "l", " ", "-", " ",
          "O", "r", "e", "g", "o", "n">>)

PctTrailInfo ==
    Str(<<"A", " ", "l", "o", "n", "g", "-", "d", "i", "s", "t", "a",
          "n", "c", "e", " ", "h", "i", "k", "i", "n", "g",
          " ", "t", "r", "a", "i", "l", " ", "s", "p", "a",
          "n", "n", "i", "n", "g", " ", "t", "h", "e", " ",
          "l", "e", "n", "g", "t", "h", " ", "o", "f", " ",
          "O", "r", "e", "g", "o", "n">>)

OregonTrail ==
    Str(<<"O", "r", "e", "g", "o", "n", " ", "T", "r", "a", "i", "l">>)

ATrailInOregon ==
    Str(<<"A", " ", "t", "r", "a", "i", "l", " ", "i", "n", " ", "O",
          "r", "e", "g", "o", "n">>)

UnknownTrail ==
    Str(<<"U", "n", "k", "n", "o", "w", "n", " ", "T", "r", "a", "i",
          "l">>)

PctSectionName ==
    Str(<<"P", "a", "c", "i", "f", "i", "c", " ", "C", "r", "e", "s",
          "t", " ", "T", "r", "a", "i", "l", " ", "-", " ",
          "O", "r", "e", "g", "o", "n", " ", "S", "e", "c",
          "t", "i", "o", "n">>)

PctSectionInfo ==
    Str(<<"A", " ", "l", "o", "n", "g", "-", "d", "i", "s", "t", "a",
          "n", "c", "e", " ", "h", "i", "k", "i", "n", "g",
          " ", "t", "r", "a", "i", "l", " ", "s", "p", "a",
          "n", "n", "i", "n", "g", " ", "f", "r", "o", "m",
          " ", "C", "a", "n", "a", "d", "a", " ", "t", "o",
          " ", "M", "e", "x", "i", "c", "o">>)

PctLengthText ==
    Str(<<"4", "5", "6", ".", "5", " ", "m", "i", "l", "e", "s", " ",
          "(", "o", "f", " ", "2", ",", "6", "5", "0", " ",
          "m", "i", "l", "e", "s", " ", "t", "o", "t", "a",
          "l", ")">>)

PacificCrest == <<"P", "A", "C", "I", "F", "I", "C", " ", "C", "R", "E", "S",
      "T">>

Miles == <<" ", "m", "i", "l", "e", "s">>

\* String.prototype.includes.
Includes(chars, sub) == IndexOfSub(chars, sub) # 0

\* A number of miles, counted in hundredths; NoQty is an absent property.
Qty(h) == [t |-> "number", h |-> h]
NoQty == [t |-> "undefined", h |-> 0]

\* toLocaleString("en-US", {maximumFractionDigits: 1}) of a number of
\* hundredths.
LocaleOneDecimal(h) ==
    LET tenths == (h + 5) \div 10
    IN  LocaleInteger(tenths \div 10)
        \o (IF tenths % 10 = 0 THEN <<>> ELSE <<".">> \o Digits(tenths % 10))

\* trailName and trailInfo of onTrailClick, for name properties that are
\* strings.
TrailNameAndInfo(sourceId, props) ==
    IF sourceId = "pct"
    THEN [trailName |-> PctTrailName, trailInfo |-> PctTrailInfo]
    ELSE IF sourceId = "oregon-trails"
         THEN LET trailName ==
                      OrElse(props.TRAIL_NAME,
                             OrElse(props.NAME, OrElse(props.TRAIL, OregonTrail)))
                  trailInfo == OrElse(props.DESCRIPTION, ATrailInOregon)
              IN  IF /\ Truthy(props.TRAIL_NAME)
                     /\ Includes(props.TRAIL_NAME.s, PacificCrest)
                  THEN [trailName |-> PctSectionName, trailInfo |-> PctSectionInfo]
                  ELSE [trailName |-> trailName, trailInfo |-> trailInfo]
         ELSE [trailName |-> UnknownTrail, trailInfo |-> Str(<<>>)]

\* What turf.length does on a geometry: it throws, or returns NaN, Infinity
\* or a finite length.  A finite length is counted in hundredths of a mile,
\* so that lengthMeters * 0.000621371 is exact.
LengthResults ==
    {[t |-> "throws", h |-> 0], [t |-> "NaN", h |-> 0], [t |-> "Infinity", h |-> 0]}
    \cup {[t |-> "finite", h |-> h] : h \in {0, 456, 123456}}

\* Variant that always computes the length of a trail of oregon-trails from
\* its geometry.
TrailLengthTextNoGisMiles(sourceId, GIS_MILES, lengthMeters) ==
    IF sourceId = "pct"
    THEN PctLengthText
    ELSE IF lengthMeters.t = "finite"
         THEN Str(LocaleOneDecimal(lengthMeters.h) \o Miles)
         ELSE Sentinel

\* lengthTxt of onTrailClick.
TrailLengthText(sourceId, GIS_MILES, lengthMeters) ==
    IF sourceId = "oregon-trails" /\ GIS_MILES.t = "number" /\ GIS_MILES.h # 0
    THEN Str(LocaleOneDecimal(GIS_MILES.h) \o Miles)
    ELSE IF sourceId = "pct"
         THEN PctLengthText
         ELSE IF lengthMeters.t = "throws"
              THEN Sentinel
              ELSE LET lengthMiles == lengthMeters
                   IN  IF lengthMiles.t = "finite"
                       THEN Str(LocaleOneDecimal(lengthMiles.h) \o Miles)
                       ELSE Sentinel

\* What onTrailClick puts in the popup.
TrailPopupContent(sourceId, props, lengthMeters) ==
    LET n == TrailNameAndInfo(sourceId, props)
    IN  [trailName |-> n.trailName,
         trailInfo |-> n.trailInfo,
         lengthTxt |-> TrailLengthText(sourceId, props.GIS_MILES, lengthMeters)]

(***************************************************************************)
(* The sources and layers of the map.  A map is its sources, its layers in *)
(* drawing order, the addSource and addLayer calls made on it and the      *)
(* error they gave.  A layer is a record of its id, type and source.       *)
(***************************************************************************)
StyleLayer(id, type, source) == [id |-> id, type |-> type, source |-> source]

\* The source of the basemap and the layers a basemap style is made of.
BaseSource == "composite"

BaseLayers ==
    {StyleLayer("background", "background", ""),
     StyleLayer("water", "fill", BaseSource),
     StyleLayer("place-label", "symbol", BaseSource),
     StyleLayer("road-label", "symbol", BaseSource)}

\* The basemap styles: layers without repetition.
Styles ==
    {s \in UNION {[1..n -> BaseLayers] : n \in 0..MaxStyleLayers} :
        \A i, j \in 1..Len(s) : i # j => s[i] # s[j]}

\* The map once its style is loaded.
LoadedMap(style) ==
    [sources |-> {BaseSource}, order |-> style, log |-> <<>>, error |-> "none"]

\* map.getSource(id) and map.getLayer(id), as truth values.
GetSource(mp, id) == id \in mp.sources
GetLayer(mp, id) == \E i \in 1..Len(mp.order) : mp.order[i].id = id

\* map.addSource(id, ..): throws when the id is taken.
AddSource(mp, id) ==
    LET logged == [mp EXCEPT !.log = Append(@,
                      [op |-> "addSource", id |-> id,
                       existed |-> GetSource(mp, id),
                       source |-> "", sourceExists |-> TRUE,
                       before |-> "", beforeExists |-> TRUE])]
    IN  IF GetSource(mp, id)
        THEN [logged EXCEPT !.error = "Error"]
        ELSE [logged EXCEPT !.sources = @ \cup {id}]

\* The layers with the new one put before the layer of id before, or last
\* when before is undefined ("").
InsertBefore(order, layer, before) ==
    IF before = ""
    THEN Append(order, layer)
    ELSE LET i == CHOOSE k \in 1..Len(order) : order[k].id = before
         IN  SubSeq(order, 1, i - 1) \o <<layer>> \o SubSeq(order, i, Len(order))

\* map.addLayer(layer, before): when the id is taken, the source is missing
\* or before names no layer, the map fires an error event and adds nothing.
AddLayer(mp, layer, before) ==
    LET logged == [mp EXCEPT !.log = Append(@,
                      [op |-> "addLayer", id |-> layer.id,
                       existed |-> GetLayer(mp, layer.id),
                       source |-> layer.source,
                       sourceExists |-> GetSource(mp, layer.source),
                       before |-> before,
                       beforeExists |-> (before = "" \/ GetLayer(mp, before))])]
    IN  IF \/ GetLayer(mp, layer.id)
           \/ ~GetSource(mp, layer.source)
           \/ (before # "" /\ ~GetLayer(mp, before))
        THEN [logged EXCEPT !.error = IF @ = "none" THEN "ErrorEvent" ELSE @]
        ELSE [logged EXCEPT !.order = InsertBefore(@, layer, before)]

\* if (!map.getSource(id)) map.addSource(id, ..); nothing runs after a throw.
EnsureSource(mp, id) ==
    IF mp.error = "Error" \/ GetSource(mp, id) THEN mp ELSE AddSource(mp, id)

\* Variant that calls map.addLayer without asking map.getLayer.
EnsureLayerNoGetLayer(mp, layer, before) ==
    IF mp.error = "Error" THEN mp ELSE AddLayer(mp, layer, before)

\* if (!map.getLayer(id)) map.addLayer({id, ..}, before).
EnsureLayer(mp, layer, before) ==
    IF mp.error = "Error" \/ GetLayer(mp, layer.id)
    THEN mp
    ELSE AddLayer(mp, layer, before)

MapSources == {"roadless-src", "pct", "oregon-trails", "congressional-districts"}

addMapSources(mp) ==
    EnsureSource(
        EnsureSource(
            EnsureSource(
                EnsureSource(mp, "roadless-src"),
                "pct"),
            "oregon-trails"),
        "congressional-districts")

\* map.getStyle().layers?.find((l) => l.type === "symbol")?.id, "" when
\* undefined.
FirstSymbol(mp) ==
    IF \E i \in 1..Len(mp.order) : mp.order[i].type = "symbol"
    THEN mp.order[CHOOSE i \in 1..Len(mp.order) :
                    /\ mp.order[i].type = "symbol"
                    /\ \A j \in 1..(i - 1) : mp.order[j].type # "symbol"].id
    ELSE ""

addMapLayers(mp) ==
    LET firstSymbol == FirstSymbol(mp)
        m1 == EnsureLayer(mp, StyleLayer(RoadlessFill, "fill", "roadless-src"),
                          firstSymbol)
        m2 == EnsureLayer(m1, StyleLayer(OregonTrailsLine, "line", "oregon-trails"),
                          RoadlessFill)
        m3 == EnsureLayer(m2, StyleLayer(RoadlessLine, "line", "roadless-src"),
                          firstSymbol)
        m4 == EnsureLayer(m3, StyleLayer(PctLine, "line", "pct"), firstSymbol)
        m5 == EnsureLayer(m4, StyleLayer(DistrictLine, "line",
                                         "congressional-districts"), "")
    IN  EnsureLayer(m5, StyleLayer(DistrictFill, "fill",
                                   "congressional-districts"), DistrictLine)

(***************************************************************************)
(* The functions taken one at a time: an input is drawn, then the function *)
(* is run on it, out collecting the results.                               *)
(***************************************************************************)
mapVars ==
    <<selectedDistrictId, pendingUpdate, zoomHandlerSel, zoom, paint, layers,
      popup, cursor, dispatch, clickFeatures, resolved, error, calls,
      lastEvent, prevSel, lifecycleVars>>

\* The same without calls, for the runs that record the function run.
mapVarsButCalls ==
    <<selectedDistrictId, pendingUpdate, zoomHandlerSel, zoom, paint, layers,
      popup, cursor, dispatch, clickFeatures, resolved, error,
      lastEvent, prevSel, lifecycleVars>>

\* The paint the two district layers carry before a run: the one of
\* addMapLayers or the one of an earlier selection.
PaintsBefore ==
    {InitialPaint,
     [fillOpacity |-> CaseDistrict(Str(<<"4">>), 4, 1),
      lineOpacity |-> CaseDistrict(Str(<<"4">>), 10, 8),
      lineWidth |-> CaseDistrict(Str(<<"4">>), 25, 15)]}

\* Inputs of the paint derivation: the paint before, the district layers
\* m.getLayer reports, selectedDistrictId and m.getZoom().
PaintInputs ==
    {[fn |-> "paint", paint |-> p, present |-> ls, sel |-> s, zoom |-> z] :
        p \in PaintsBefore,
        ls \in SUBSET {DistrictFill, DistrictLine},
        s \in {Null, Str(<<>>), Str(<<"4">>), Str(<<"1", "2">>)},
        z \in ZoomLevels}

\* LISTING_NA values: the strings of at most MaxNameLen characters of a
\* small alphabet, and "Smith, Jane".
NameAlphabet == {"S", "J", ",", " "}

NameStrings ==
    UNION {[1..n -> NameAlphabet] : n \in 0..MaxNameLen}
    \cup {<<"S", "m", "i", "t", "h", ",", " ", "J", "a", "n", "e">>}

\* Inputs of a click on a district: the DISTRICT and LISTING_NA properties.
DistrictInputs ==
    {[fn |-> "district", DISTRICT |-> d, LISTING_NA |-> n] :
        d \in {Undefined, Str(<<>>), Str(<<"3">>), Str(<<"1", "2">>),
               Str(<<"1", "2", "3">>), Num(<<"3">>), Num(<<"0">>)},
        n \in {Undefined} \cup {Str(s) : s \in NameStrings}}

\* Inputs of a click on a roadless area: the properties under the candidate
\* keys and what turf.area does on the geometry.
AreaKeys == {"NAME", "AREA_NAME", "OBJECTID_1", "ID"}

AreaInputs ==
    {[fn |-> "area", props |-> p, area |-> a] :
        p \in [AreaKeys -> {Undefined, Null, Str(<<"a">>), Num(<<"7">>)}],
        a \in AreaResults}

\* Names of trails: one holding "PACIFIC CREST", the same in another case,
\* and others.
PacificCrestTrail ==
    Str(<<"P", "A", "C", "I", "F", "I", "C", " ", "C", "R", "E", "S",
          "T", " ", "T", "R", "A", "I", "L">>)

PacificCrestTrailMixedCase ==
    Str(<<"P", "a", "c", "i", "f", "i", "c", " ", "C", "r", "e", "s",
          "t", " ", "T", "r", "a", "i", "l">>)

RogueRiver ==
    Str(<<"R", "O", "G", "U", "E", " ", "R", "I", "V", "E", "R">>)

\* Inputs of a click on a trail: the source of the layer, the properties
\* onTrailClick reads and what turf.length does on the geometry.
TrailInputs ==
    {[fn |-> "trail", source |-> src, length |-> l,
      props |-> [TRAIL_NAME |-> tn, NAME |-> n, TRAIL |-> tr,
                 DESCRIPTION |-> d, GIS_MILES |-> g]] :
        src \in {"pct", "oregon-trails"},
        l \in LengthResults,
        tn \in {Undefined, PacificCrestTrail, PacificCrestTrailMixedCase,
                RogueRiver},
        n \in {Undefined, PacificCrestTrail, RogueRiver},
        tr \in {Undefined, Str(<<"T">>)},
        d \in {Undefined, Str(<<"d">>)},
        g \in {NoQty, Qty(0), Qty(1234)}}

\* The paint a run starts from: the result of the run before, if any.
PaintNow == IF out = <<>> THEN arg.paint ELSE out[Len(out)]

\* The styling effect runs on the input.
RunStylingEffect ==
    /\ arg.fn = "paint"
    /\ Len(out) < MaxRuns
    /\ out' = Append(out, StylingEffect(PaintNow, arg.present, arg.sel, arg.zoom))
    /\ calls' = {"stylingEffect"}
    /\ UNCHANGED <<mapVarsButCalls, arg>>

\* handleZoomChange runs on the input.
RunHandleZoomChange ==
    /\ arg.fn = "paint"
    /\ Len(out) < MaxRuns
    /\ out' = Append(out, HandleZoomChange(PaintNow, arg.present, arg.sel, arg.zoom))
    /\ calls' = {"handleZoomChange"}
    /\ UNCHANGED <<mapVarsButCalls, arg>>

\* Inputs of the addition of the sources and layers: the basemap style.
StyleInputs == {[fn |-> "setup", style |-> s] : s \in Styles}

\* The map a run starts from: the loaded map, or the map the run before
\* left.
MapNow ==
    IF out = <<>>
    THEN LoadedMap(arg.style)
    ELSE [out[Len(out)] EXCEPT !.log = <<>>]

\* The set-up effect adds the sources and the layers.
RunAddSourcesAndLayers ==
    /\ arg.fn = "setup"
    /\ Len(out) < MaxRuns
    /\ out' = Append(out, addMapLayers(addMapSources(MapNow)))
    /\ UNCHANGED <<mapVars, arg>>

\* A click on a district feature with the properties of the input:
\* generalClickHandler runs.
DistrictPopupClick ==
    /\ arg.fn = "district"
    /\ out = <<>>
    /\ LET feature == [layer |-> DistrictLine, id |-> 3,
                       DISTRICT |-> arg.DISTRICT]
           hs == GeneralClickHandler(HandlerState, <<feature>>)
       IN  /\ Install(hs)
           /\ resolved' = hs.resolved
           /\ clickFeatures' = <<feature>>
    /\ out' = <<DistrictPopupContent(arg)>>
    /\ lastEvent' = "click"
    /\ UNCHANGED <<selectedDistrictId, zoomHandlerSel, zoom, paint, layers,
                   cursor, dispatch, prevSel, lifecycleVars, arg>>

\* A click on a roadless area with the properties and geometry of the
\* input: onClick runs.
AreaPopupClick ==
    /\ arg.fn = "area"
    /\ out = <<>>
    /\ LET feature == [layer |-> RoadlessFill, id |-> 5, DISTRICT |-> Undefined]
       IN  /\ Install(OnClick(HandlerState, <<feature>>))
           /\ clickFeatures' = <<feature>>
    /\ out' = <<AreaPopupContent(arg.props, arg.area)>>
    /\ lastEvent' = "click"
    /\ UNCHANGED <<selectedDistrictId, zoomHandlerSel, zoom, paint, layers,
                   cursor, dispatch, resolved, prevSel, lifecycleVars, arg>>

\* A click on a trail with the source, properties and geometry of the
\* input: onTrailClick runs.
TrailPopupClick ==
    /\ arg.fn = "trail"
    /\ out = <<>>
    /\ LET layer == IF arg.source = "pct" THEN PctLine ELSE OregonTrailsLine
           feature == [layer |-> layer, id |-> 7, DISTRICT |-> Undefined]
       IN  /\ Install(OnTrailClick(HandlerState, <<feature>>, layer))
           /\ clickFeatures' = <<feature>>
    /\ out' = <<TrailPopupContent(arg.source, arg.props, arg.length)>>
    /\ lastEvent' = "click"
    /\ UNCHANGED <<selectedDistrictId, zoomHandlerSel, zoom, paint, layers,
                   cursor, dispatch, resolved, prevSel, lifecycleVars, arg>>

FunctionInputs ==
    PaintInputs \cup DistrictInputs \cup AreaInputs \cup TrailInputs
    \cup StyleInputs

InitFunctions ==
    /\ selectedDistrictId = Null
    /\ pendingUpdate = NoUpdate
    /\ zoomHandlerSel = Null
    /\ zoom = 500
    /\ layers = AllLayers
    /\ paint = StylingEffect(InitialPaint, AllLayers, Null, 500)
    /\ popup = PopupClosed
    /\ cursor = ""
    /\ dispatch = <<>>
    /\ clickFeatures = <<>>
    /\ resolved = NoFeature
    /\ error = "none"
    /\ calls = {}
    /\ lastEvent = "mount"
    /\ prevSel = Null
    /\ listeners = SetupOn(1) \cup PopupOn(1) \cup ZoomOn(1)
    /\ setups = 1
    /\ phase = "attached"
    /\ stalePopup = FALSE
    /\ arg \in FunctionInputs
    /\ out = <<>>

NextFunctions ==
    \/ RunStylingEffect
    \/ RunHandleZoomChange
    \/ DistrictPopupClick
    \/ AreaPopupClick
    \/ TrailPopupClick
    \/ RunAddSourcesAndLayers

SpecFunctions == InitFunctions /\ [][NextFunctions]_vars

(***************************************************************************)
(* Vocabulary of the properties.                                           *)
(***************************************************************************)
\* No click is being delivered and no selection update waits for React.
Settled == dispatch = <<>> /\ pendingUpdate = NoUpdate

\* The last event was a click and all its listeners have run.
ClickDelivered == lastEvent = "click" /\ dispatch = <<>>

\* The selection state: Unselected is null, Selected(d) is d.
Unselected == Null

DistrictLayers == {DistrictFill, DistrictLine}

\* Position of a layer in the fixed order, -1 for a layer not in it.
PriorityOf(layer) ==
    CASE layer = DistrictFill -> 0
      [] layer = DistrictLine -> 1
      [] layer = RoadlessFill -> 2
      [] layer = OregonTrailsLine -> 3
      [] layer = PctLine -> 4
      [] OTHER -> -1

\* The positions of the features whose layer has the maximum index.
TopPositions(fs) ==
    {i \in 1..Len(fs) :
        /\ PriorityOf(fs[i].layer) >= 0
        /\ \A j \in 1..Len(fs) : PriorityOf(fs[j].layer) <= PriorityOf(fs[i].layer)}

\* The first feature, in input order, of the layer with the maximum index.
TopByPriority(fs) ==
    IF TopPositions(fs) = {}
    THEN NoFeature
    ELSE fs[CHOOSE i \in TopPositions(fs) : \A j \in TopPositions(fs) : i <= j]

\* The paint of the derivation, in tenths.
BaselinePaint ==
    [fillOpacity |-> Const(1), lineOpacity |-> Const(8), lineWidth |-> Const(15)]

HighlightPaint(d) ==
    [fillOpacity |-> CaseDistrict(d, 4, 1),
     lineOpacity |-> CaseDistrict(d, 10, 8),
     lineWidth |-> CaseDistrict(d, 25, 15)]

PaintDerivation(state, z) ==
    IF z > 800 \/ state = Unselected THEN BaselinePaint ELSE HighlightPaint(state)

(***************************************************************************)
(* C1.  Original statement: after a click whose highest-priority feature   *)
(* is on a district layer, the selection is Selected(d) with d the         *)
(* feature's DISTRICT value and the district popup is open, for every      *)
(* property bag (checked on the clicks whose listeners all returned).      *)
(***************************************************************************)
C1_ClickSelectsDistrictAlways ==
    (ClickDelivered /\ pendingUpdate = NoUpdate /\ error = "none"
        /\ TopByPriority(clickFeatures).layer \in DistrictLayers)
    => /\ selectedDistrictId = TopByPriority(clickFeatures).DISTRICT
       /\ selectedDistrictId # Unselected
       /\ popup = [kind |-> "district", feature |-> TopByPriority(clickFeatures)]

(***************************************************************************)
(* C1, amended.  After a click whose highest-priority feature is on a      *)
(* district layer, from any prior state: the selection requested, and the  *)
(* selection once React has rendered it, is the feature's DISTRICT value   *)
(* when that value is truthy and Unselected when DISTRICT is absent; the   *)
(* district popup of that feature is open when DISTRICT is a string or     *)
(* absent; when DISTRICT is a truthy non-string the handler has thrown a   *)
(* TypeError and no popup is open.                                         *)
(***************************************************************************)
C1_ClickOnDistrict ==
    (ClickDelivered /\ TopByPriority(clickFeatures).layer \in DistrictLayers)
    => LET top == TopByPriority(clickFeatures)
           d == top.DISTRICT
           target == IF Truthy(d) THEN d ELSE Unselected
       IN  /\ pendingUpdate # NoUpdate => pendingUpdate = target
           /\ pendingUpdate = NoUpdate => selectedDistrictId = target
           /\ IF d.t = "string" \/ d = Undefined
              THEN /\ popup = [kind |-> "district", feature |-> top]
                   /\ error = "none"
              ELSE /\ popup = PopupClosed
                   /\ error = "TypeError"

\* A click on district "4" while district "12" was selected has been rendered.
C1_Witness ==
    /\ ClickDelivered /\ pendingUpdate = NoUpdate
    /\ TopByPriority(clickFeatures).layer = DistrictFill
    /\ TopByPriority(clickFeatures).DISTRICT = Str(<<"4">>)
    /\ prevSel = Str(<<"1", "2">>)
    /\ selectedDistrictId = Str(<<"4">>)
    /\ popup.kind = "district"

(***************************************************************************)
(* C2.  After a click under which there is no feature, or whose            *)
(* highest-priority feature is on roadless-fill, oregon-trails-line or     *)
(* pct-line, the selection is Unselected, whatever it was before and even  *)
(* when a district feature lies under the same point.                      *)
(***************************************************************************)
C2_ClickElsewhereUnselects ==
    (ClickDelivered /\ pendingUpdate = NoUpdate
        /\ \/ clickFeatures = <<>>
           \/ TopByPriority(clickFeatures).layer
                 \in {RoadlessFill, OregonTrailsLine, PctLine})
    => selectedDistrictId = Unselected

\* A click on a roadless area lying over a district, while a district was
\* selected, has been rendered.
C2_Witness ==
    /\ ClickDelivered /\ pendingUpdate = NoUpdate
    /\ TopByPriority(clickFeatures).layer = RoadlessFill
    /\ \E i \in 1..Len(clickFeatures) : clickFeatures[i].layer \in DistrictLayers
    /\ prevSel = Str(<<"4">>)
    /\ selectedDistrictId = Unselected

(***************************************************************************)
(* C3.  After the popup has been closed the selection requested is         *)
(* Unselected and so is the selection once rendered, from any prior state; *)
(* no error is raised.                                                     *)
(***************************************************************************)
C3_PopupCloseUnselects ==
    lastEvent = "close"
    => /\ "popup.close" \in calls => pendingUpdate = Unselected
       /\ pendingUpdate # NoUpdate => pendingUpdate = Unselected
       /\ pendingUpdate = NoUpdate => selectedDistrictId = Unselected
       /\ error = "none"

\* The popup of a roadless area was closed while nothing was selected.
C3_Witness ==
    /\ lastEvent = "close"
    /\ pendingUpdate = NoUpdate
    /\ prevSel = Unselected
    /\ selectedDistrictId = Unselected
    /\ popup = PopupClosed

(***************************************************************************)
(* C4.  The paint the styling effect installs for a new selection is the   *)
(* derivation of (state, zoom): the constants 0.1, 0.8, 1.5 when zoom > 8  *)
(* or the state is Unselected, the case expressions on DISTRICT == d with  *)
(* (0.4, 0.1), (1.0, 0.8), (2.5, 1.5) when zoom <= 8 and the state is      *)
(* Selected(d); zoom 8 itself takes the case expressions.                  *)
(***************************************************************************)
C4_EffectInstallsDerivation ==
    [][selectedDistrictId' # selectedDistrictId
       => paint' =
            IF zoom' > 800 \/ selectedDistrictId' = Unselected
            THEN [fillOpacity |-> Const(1), lineOpacity |-> Const(8),
                  lineWidth |-> Const(15)]
            ELSE [fillOpacity |-> CaseDistrict(selectedDistrictId', 4, 1),
                  lineOpacity |-> CaseDistrict(selectedDistrictId', 10, 8),
                  lineWidth |-> CaseDistrict(selectedDistrictId', 25, 15)]]_vars

\* District "12" was selected by a click at zoom exactly 8 and the effect
\* installed the case expressions.
C4_Witness ==
    /\ zoom = 800
    /\ ClickDelivered /\ pendingUpdate = NoUpdate
    /\ prevSel = Unselected
    /\ selectedDistrictId = Str(<<"1", "2">>)
    /\ paint.fillOpacity = CaseDistrict(Str(<<"1", "2">>), 4, 1)
    /\ paint.lineWidth = CaseDistrict(Str(<<"1", "2">>), 25, 15)

(***************************************************************************)
(* C5.  Once the last event and the effects it scheduled have been         *)
(* handled, the paint installed on the two district layers is the          *)
(* derivation of the current (state, zoom), and the registered zoom        *)
(* handler holds the current selection, not an earlier one.                *)
(***************************************************************************)
C5_PaintFollowsStateAndZoom ==
    Settled
    => /\ paint = PaintDerivation(selectedDistrictId, zoom)
       /\ zoomHandlerSel = selectedDistrictId

\* From Unselected, a click on district "4" at zoom 5 has been rendered.
C5_Witness ==
    /\ Settled
    /\ lastEvent = "click"
    /\ prevSel = Unselected
    /\ zoom = 500
    /\ selectedDistrictId = Str(<<"4">>)
    /\ paint.fillOpacity = CaseDistrict(Str(<<"4">>), 4, 1)

(***************************************************************************)
(* C6.  Only generalClickHandler and the popup close listener set the      *)
(* selection: a step queues a selection only when one of them ran in it,   *)
(* the state itself changes only to the queued value, and a step in which  *)
(* handleZoomChange, onEnter, onLeave, onClick or onTrailClick ran without *)
(* one of those two leaves the state and the queued selection unchanged.   *)
(***************************************************************************)
C6_OnlyClickAndCloseSelect ==
    [][/\ (pendingUpdate' # pendingUpdate /\ pendingUpdate' # NoUpdate)
          => calls' \cap {"generalClickHandler", "popup.close"} # {}
       /\ selectedDistrictId' # selectedDistrictId
          => selectedDistrictId' = pendingUpdate
       /\ (/\ calls' \cap {"handleZoomChange", "onEnter", "onLeave",
                           "onClick", "onTrailClick"} # {}
           /\ calls' \cap {"generalClickHandler", "popup.close"} = {})
          => UNCHANGED <<selectedDistrictId, pendingUpdate>>]_vars

\* The pointer left a layer while district "4" was selected.
C6_Witness ==
    /\ calls = {"onLeave"}
    /\ selectedDistrictId = Str(<<"4">>)
    /\ prevSel = Str(<<"4">>)
    /\ popup.kind = "district"

(***************************************************************************)
(* C7.  Whenever no event is being handled, a district is selected only    *)
(* while the popup of that district is open.                               *)
(***************************************************************************)
C7_SelectedOnlyWhilePopupOpen ==
    (Settled /\ selectedDistrictId # Unselected)
    => /\ popup.kind = "district"
       /\ popup.feature.DISTRICT = selectedDistrictId

(***************************************************************************)
(* C8.  Original statement: the paint of a selection change is installed   *)
(* inside the listener that made the change, so that the next listener     *)
(* called finds the paint of the new selection.                            *)
(***************************************************************************)
C8_PaintInstalledInHandler ==
    (/\ calls \cap {"generalClickHandler", "popup.close"} # {}
     /\ dispatch # <<>>)
    => paint = PaintDerivation(pendingUpdate, zoom)

(***************************************************************************)
(* C8, amended.  The paint of a selection change is not installed by the   *)
(* listener that requests the change: paint changes only in a step of the  *)
(* effects or of handleZoomChange; the step of the effects that changes    *)
(* the state installs the derivation of the new state and the zoom at that *)
(* time; handleZoomChange installs, inside its own call, the derivation of *)
(* the selection its closure holds and the new zoom.                       *)
(***************************************************************************)
C8_PaintInstalledByEffect ==
    [][/\ paint' # paint => calls' \in {{"effects"}, {"handleZoomChange"}}
       /\ (calls' = {"effects"} /\ selectedDistrictId' # selectedDistrictId)
          => paint' = PaintDerivation(selectedDistrictId', zoom)
       /\ (calls' = {"handleZoomChange"} /\ zoom' # zoom)
          => paint' = PaintDerivation(zoomHandlerSel, zoom')]_vars

\* The popup of the selected district "4" has just been closed by a click and
\* generalClickHandler is about to run: the paint is still that of "4".
C8_Witness ==
    /\ "popup.close" \in calls
    /\ dispatch # <<>>
    /\ pendingUpdate = Unselected
    /\ selectedDistrictId = Str(<<"4">>)
    /\ zoom = 500
    /\ paint = HighlightPaint(Str(<<"4">>))

(***************************************************************************)
(* C9.  For a list of features that is empty or holds a feature of a       *)
(* layer of the fixed order, the feature generalClickHandler resolves is   *)
(* the first one, in input order, among those whose layer has the maximum  *)
(* index in the order; it is null for the empty list.                      *)
(***************************************************************************)
C9_ResolverReturnsFirstOfTop ==
    (/\ ClickDelivered
     /\ clickFeatures = <<>> \/ TopPositions(clickFeatures) # {})
    => /\ resolved = TopByPriority(clickFeatures)
       /\ clickFeatures = <<>> => resolved = NoFeature

\* Two features of the same layer were under the click and the first one was
\* resolved.
C9_Witness ==
    /\ ClickDelivered
    /\ Len(clickFeatures) = 2
    /\ clickFeatures[1].layer = clickFeatures[2].layer
    /\ clickFeatures[1].layer = DistrictLine
    /\ resolved = clickFeatures[1]

(***************************************************************************)
(* C10.  When features of several interactive layers lie under a click     *)
(* whose listeners all returned, the popup shown afterwards is that of the *)
(* highest-priority feature.                                               *)
(***************************************************************************)
C10_PopupShowsHighestPriority ==
    (/\ ClickDelivered
     /\ error = "none"
     /\ \E i, j \in 1..Len(clickFeatures) :
           /\ PriorityOf(clickFeatures[i].layer) >= 0
           /\ PriorityOf(clickFeatures[j].layer) >= 0
           /\ clickFeatures[i].layer # clickFeatures[j].layer)
    => popup.feature = TopByPriority(clickFeatures)

(***************************************************************************)
(* C11.  Original statement: a feature of a layer outside the order is     *)
(* never resolved when a feature of a listed layer is under the point, and *)
(* it is the feature resolved when every feature under the point is of an  *)
(* unlisted layer.                                                         *)
(***************************************************************************)
C11_UnlistedResolvedWhenAlone ==
    (ClickDelivered /\ clickFeatures # <<>>)
    => IF TopPositions(clickFeatures) # {}
       THEN PriorityOf(resolved.layer) >= 0
       ELSE resolved = clickFeatures[1]

(***************************************************************************)
(* C11, amended.  A feature of a layer outside the order has index -1 and  *)
(* is never the feature generalClickHandler resolves: with a feature of a  *)
(* listed layer under the point the result is of a listed layer, and when  *)
(* every feature under the point is of an unlisted layer the result is     *)
(* null and the click clears the selection.                                *)
(***************************************************************************)
C11_UnlistedNeverResolved ==
    (ClickDelivered /\ clickFeatures # <<>>)
    => /\ \A i \in 1..Len(clickFeatures) :
             IndexOf(layerPriority, clickFeatures[i].layer) = -1
                => resolved # clickFeatures[i]
       /\ IF TopPositions(clickFeatures) # {}
          THEN PriorityOf(resolved.layer) >= 0
          ELSE /\ resolved = NoFeature
               /\ pendingUpdate = Unselected \/ selectedDistrictId = Unselected

\* Only a roadless-line feature was under the click and nothing was resolved.
C11_Witness ==
    /\ ClickDelivered
    /\ Len(clickFeatures) = 1
    /\ clickFeatures[1].layer = RoadlessLine
    /\ resolved = NoFeature

(***************************************************************************)
(* C12.  Every listener attached during a set-up is detached by the        *)
(* teardown: once the cleanups have run no listener is attached, and a     *)
(* listener attached is one of the latest set-up.                          *)
(***************************************************************************)
C12_RegistrationSymmetric ==
    /\ phase # "attached" => listeners = {}
    /\ \A l \in listeners : l.setup = setups

(***************************************************************************)
(* C13.  After the teardown no event reaches a listener that changes the   *)
(* selection or installs paint: while the effects are cleaned up or the    *)
(* component is unmounted, the selection and the paint stay as they are.   *)
(***************************************************************************)
C13_NoMutationAfterTeardown ==
    [][(phase # "attached" /\ phase' # "attached")
       => /\ selectedDistrictId' = selectedDistrictId
          /\ paint' = paint]_vars

(***************************************************************************)
(* C14.  The paint derivation is idempotent: run again on the same         *)
(* (state, zoom), through the styling effect or through handleZoomChange,  *)
(* it installs the paint the run before installed.                         *)
(***************************************************************************)
C14_PaintDerivationIdempotent ==
    arg.fn = "paint" => \A i, j \in 1..Len(out) : out[i] = out[j]

\* The derivation ran twice on district "4" at zoom 8 from the paint of
\* addMapLayers, and the highlight of "4" was installed both times.
C14_Witness ==
    /\ arg.fn = "paint"
    /\ arg.paint = InitialPaint
    /\ arg.present = {DistrictFill, DistrictLine}
    /\ arg.sel = Str(<<"4">>)
    /\ arg.zoom = 800
    /\ Len(out) = 2
    /\ out[1] = HighlightPaint(Str(<<"4">>))
    /\ out[2] = HighlightPaint(Str(<<"4">>))

(***************************************************************************)
(* C15.  In the district popup the district number is left-padded with "0" *)
(* to 2 characters ("3" gives "03", "12" stays "12"); when the district    *)
(* number is not a string padStart throws: the click handler ends with the *)
(* TypeError and no popup is open.                                         *)
(***************************************************************************)
C15_ZeroPadOrFail ==
    (arg.fn = "district" /\ out # <<>>)
    => LET districtNumber ==
               IF Truthy(arg.DISTRICT) THEN arg.DISTRICT ELSE Unknown
       IN  IF districtNumber.t = "string"
           THEN /\ error = "none"
                /\ popup.kind = "district"
                /\ out[1].padded =
                      IF Len(districtNumber.s) < 2
                      THEN Str(<<"0">> \o districtNumber.s)
                      ELSE districtNumber
                /\ arg.DISTRICT = Str(<<"3">>)
                      => out[1].padded = Str(<<"0", "3">>)
                /\ arg.DISTRICT = Str(<<"1", "2">>)
                      => out[1].padded = Str(<<"1", "2">>)
           ELSE /\ error = "TypeError"
                /\ out[1].error = "TypeError"
                /\ popup = PopupClosed

\* District "3" was clicked and the popup shows "03".
C15_Witness ==
    /\ arg.fn = "district"
    /\ arg.DISTRICT = Str(<<"3">>)
    /\ out # <<>>
    /\ out[1].padded = Str(<<"0", "3">>)
    /\ popup.kind = "district"

(***************************************************************************)
(* C19.  The representative name is "First Last" exactly when the raw      *)
(* LISTING_NA value holds the substring ", " exactly once, that is when    *)
(* splitting on ", " yields exactly two parts ("Smith, Jane" gives         *)
(* "Jane Smith"); any other raw value is passed through unchanged; a       *)
(* missing (absent or empty) value yields "Unknown Representative".        *)
(***************************************************************************)
C19_RepresentativeNameReformat ==
    (arg.fn = "district" /\ out # <<>>)
    => LET raw == arg.LISTING_NA
           at == {i \in 1..(Len(raw.s) - 1) :
                     raw.s[i] = "," /\ raw.s[i + 1] = " "}
           i == CHOOSE i \in at : TRUE
       IN  /\ out[1].representative =
                IF raw = Undefined \/ raw.s = <<>>
                THEN UnknownRepresentative
                ELSE IF Cardinality(at) = 1
                     THEN Str(SubSeq(raw.s, i + 2, Len(raw.s)) \o <<" ">>
                              \o SubSeq(raw.s, 1, i - 1))
                     ELSE raw
           /\ raw = Str(<<"S", "m", "i", "t", "h", ",", " ", "J", "a", "n", "e">>)
                => out[1].representative =
                     Str(<<"J", "a", "n", "e", " ", "S", "m", "i", "t", "h">>)

\* The representative "Smith, Jane" of district "12" is shown as "Jane Smith".
C19_Witness ==
    /\ arg.fn = "district"
    /\ arg.DISTRICT = Str(<<"1", "2">>)
    /\ arg.LISTING_NA = Str(<<"S", "m", "i", "t", "h", ",", " ", "J", "a", "n", "e">>)
    /\ out # <<>>
    /\ out[1].representative = Str(<<"J", "a", "n", "e", " ", "S", "m", "i", "t", "h">>)
    /\ popup.kind = "district"

(***************************************************************************)
(* C16.  The area shown in the roadless area popup is the sentinel for     *)
(* every geometry whose area computation throws, is not finite or is zero, *)
(* and no exception leaves onClick.                                        *)
(***************************************************************************)
C16_AreaSentinel ==
    (arg.fn = "area" /\ out # <<>>)
    => /\ error = "none"
       /\ popup.kind = "area"
       /\ (\/ arg.area.t \in {"throws", "NaN", "Infinity"}
           \/ arg.area.t = "finite" /\ arg.area.tenths = 0)
          => out[1].acresTxt = Sentinel

\* The value of the first key of keys that props has; none when it has none
\* of them.
FirstPresent(keys, props, none) ==
    LET at == {i \in 1..Len(keys) : props[keys[i]] # Undefined}
    IN  IF at = {}
        THEN none
        ELSE StringOf(props[keys[CHOOSE i \in at : \A j \in at : i <= j]])

(***************************************************************************)
(* C20.  Original statement: an area feature without any of the candidate  *)
(* name keys gets the name "Unnamed area" and the id null; otherwise the   *)
(* name is the value of the first candidate name key present; the id is    *)
(* the value of the first candidate id key present, else null.             *)
(***************************************************************************)
C20_UnnamedAreaHasNoId ==
    (arg.fn = "area" /\ out # <<>>)
    => /\ (\A i \in 1..Len(NAME_KEYS) : arg.props[NAME_KEYS[i]] = Undefined)
          => (out[1].name = UnnamedArea /\ out[1].uid = Null)
       /\ out[1].name = FirstPresent(NAME_KEYS, arg.props, UnnamedArea)

(***************************************************************************)
(* C20, amended.  The name is the value of the first candidate name key    *)
(* present, "Unnamed area" when the feature has none of them; the id is    *)
(* the value of the first candidate id key present, null when the feature  *)
(* has none of the candidate id keys, whatever the name keys are: a        *)
(* feature without any name key keeps the id its id keys give.             *)
(***************************************************************************)
C20_NameAndIdIndependent ==
    (arg.fn = "area" /\ out # <<>>)
    => /\ out[1].name = FirstPresent(NAME_KEYS, arg.props, UnnamedArea)
       /\ out[1].uid = FirstPresent(ID_KEYS, arg.props, Null)
       /\ (\A i \in 1..Len(NAME_KEYS) : arg.props[NAME_KEYS[i]] = Undefined)
          => out[1].name = UnnamedArea
       /\ (\A i \in 1..Len(ID_KEYS) : arg.props[ID_KEYS[i]] = Undefined)
          => out[1].uid = Null

\* An area without name keys and with the id 7 under the second id key.
C20_Witness ==
    /\ arg.fn = "area"
    /\ arg.props["NAME"] = Undefined
    /\ arg.props["AREA_NAME"] = Undefined
    /\ arg.props["OBJECTID_1"] = Undefined
    /\ arg.props["ID"] = Num(<<"7">>)
    /\ out # <<>>
    /\ out[1].name = UnnamedArea
    /\ out[1].uid = Str(<<"7">>)
    /\ popup.kind = "area"

\* The name detected for a trail: the first value present among TRAIL_NAME,
\* NAME and TRAIL; Undefined when there is none.
DetectedName(props) ==
    IF Truthy(props.TRAIL_NAME) THEN props.TRAIL_NAME
    ELSE IF Truthy(props.NAME) THEN props.NAME
    ELSE IF Truthy(props.TRAIL) THEN props.TRAIL
    ELSE Undefined

HoldsPacificCrest(v) ==
    /\ v.t = "string"
    /\ \E i \in 1..Len(v.s) :
          /\ i + Len(PacificCrest) - 1 <= Len(v.s)
          /\ \A k \in 1..Len(PacificCrest) : v.s[i + k - 1] = PacificCrest[k]

(***************************************************************************)
(* C17.  The trail popup shows the pair ("Pacific Crest Trail - Oregon     *)
(* Section", "A long-distance hiking trail spanning from Canada to         *)
(* Mexico") exactly when the source is oregon-trails and the detected name *)
(* (the first value present among TRAIL_NAME, NAME, TRAIL) holds           *)
(* "PACIFIC CREST", case-sensitively; for the source pct the fixed text is *)
(* shown whatever the properties are.                                      *)
(***************************************************************************)
C17_RelabelOnDetectedName ==
    (arg.fn = "trail" /\ out # <<>>)
    => /\ (out[1].trailName = PctSectionName /\ out[1].trailInfo = PctSectionInfo)
          <=> (/\ arg.source = "oregon-trails"
               /\ HoldsPacificCrest(DetectedName(arg.props)))
       /\ arg.source = "pct"
          => (out[1].trailName = PctTrailName /\ out[1].trailInfo = PctTrailInfo)

\* The text of a length of the inputs, given in hundredths of a mile, with
\* at most one decimal.
MilesText(h) ==
    CASE h = 0 -> Str(<<"0", " ", "m", "i", "l", "e", "s">>)
      [] h = 456 -> Str(<<"4", ".", "6", " ", "m", "i", "l", "e", "s">>)
      [] h = 1234 -> Str(<<"1", "2", ".", "3", " ", "m", "i", "l", "e", "s">>)
      [] h = 123456 -> Str(<<"1", ",", "2", "3", "4", ".", "6", " ", "m", "i", "l", "e", "s">>)
      [] OTHER -> Str(LocaleOneDecimal(h) \o Miles)

\* The length computed from the geometry, or the sentinel.
ComputedLengthText(l) == IF l.t = "finite" THEN MilesText(l.h) ELSE Sentinel

(***************************************************************************)
(* C18.  Original statement: the length shown in a trail popup is the      *)
(* hardcoded string for the source pct and, for every other source, the    *)
(* length computed from the geometry in miles, or the sentinel when that   *)
(* computation fails; no other value is used.                              *)
(***************************************************************************)
C18_LengthHardcodedOrComputed ==
    (arg.fn = "trail" /\ out # <<>>)
    => out[1].lengthTxt =
          IF arg.source = "pct"
          THEN PctLengthText
          ELSE ComputedLengthText(arg.length)

(***************************************************************************)
(* C18, amended.  The length shown is the hardcoded string for the source  *)
(* pct; for oregon-trails it is the GIS_MILES property of the feature,     *)
(* with at most one decimal and " miles", when that property is present    *)
(* and not zero, and otherwise the length computed from the geometry in    *)
(* miles, or the sentinel when that computation throws or is not finite.   *)
(***************************************************************************)
C18_LengthFromGisMilesFirst ==
    (arg.fn = "trail" /\ out # <<>>)
    => out[1].lengthTxt =
          IF arg.source = "pct"
          THEN PctLengthText
          ELSE IF arg.props.GIS_MILES.t = "number" /\ arg.props.GIS_MILES.h # 0
               THEN MilesText(arg.props.GIS_MILES.h)
               ELSE ComputedLengthText(arg.length)

\* A trail of oregon-trails with GIS_MILES 12.34 whose geometry measures 4.56
\* miles is shown with "12.3 miles".
C18_Witness ==
    /\ arg.fn = "trail"
    /\ arg.source = "oregon-trails"
    /\ arg.props.GIS_MILES = Qty(1234)
    /\ arg.length = [t |-> "finite", h |-> 456]
    /\ out # <<>>
    /\ out[1].lengthTxt = Str(<<"1", "2", ".", "3", " ", "m", "i", "l", "e", "s">>)
    /\ popup.kind = "trail"


(***************************************************************************)
(* C21.  The styling effect and handleZoomChange are equivalent: for every *)
(* selection, zoom and combination of district layers present, run from    *)
(* the same paint they leave the same paint on the same layers, and        *)
(* neither sets a paint property of a layer m.getLayer reports absent.     *)
(***************************************************************************)
\* The paint run i started from.
PaintBeforeRun(i) == IF i = 1 THEN arg.paint ELSE out[i - 1]

\* Paint properties of the layers m.getLayer reports absent.
AbsentPaintKeys(present) ==
    (IF DistrictFill \in present THEN {} ELSE {"fillOpacity"})
    \cup (IF DistrictLine \in present THEN {} ELSE {"lineOpacity", "lineWidth"})

C21_EffectAndZoomHandlerEquivalent ==
    arg.fn = "paint" =>
        \A i \in 1..Len(out) :
            /\ out[i] = StylingEffect(PaintBeforeRun(i), arg.present,
                                      arg.sel, arg.zoom)
            /\ out[i] = HandleZoomChange(PaintBeforeRun(i), arg.present,
                                         arg.sel, arg.zoom)
            /\ \A k \in AbsentPaintKeys(arg.present) :
                   out[i][k] = PaintBeforeRun(i)[k]

\* With the fill layer absent and district "12" selected at zoom 8, the
\* effect ran and then handleZoomChange, from the highlight of "4": both
\* left the line highlight of "12" and the fill opacity as it was.
C21_Witness ==
    /\ arg.fn = "paint"
    /\ arg.present = {DistrictLine}
    /\ arg.sel = Str(<<"1", "2">>)
    /\ arg.zoom = 800
    /\ arg.paint = HighlightPaint(Str(<<"4">>))
    /\ Len(out) = 2
    /\ calls = {"handleZoomChange"}
    /\ out[1] = [HighlightPaint(Str(<<"1", "2">>)) EXCEPT
                     !.fillOpacity = CaseDistrict(Str(<<"4">>), 4, 1)]
    /\ out[2] = out[1]


(***************************************************************************)
(* C22.  In generalClickHandler the selection update precedes the          *)
(* construction of the popup: when a click on a district fails in the      *)
(* zero-padding (DISTRICT is not a string), the selection has already been *)
(* set to that DISTRICT value and is not rolled back; the render that      *)
(* follows makes it the selection, so the failing click changes the        *)
(* selection whenever that value was not the one already selected.         *)
(***************************************************************************)
C22_SelectionSetBeforePopupFails ==
    [][/\ ("generalClickHandler" \in calls' /\ error' = "TypeError")
          => /\ resolved'.layer \in DistrictLayers
             /\ ~HasPadStart(resolved'.DISTRICT)
             /\ pendingUpdate' = resolved'.DISTRICT
             /\ popup'.kind # "district"
       /\ ("generalClickHandler" \in calls /\ error = "TypeError"
           /\ calls' = {"effects"})
          => /\ selectedDistrictId' = resolved.DISTRICT
             /\ selectedDistrictId # resolved.DISTRICT
                => selectedDistrictId' # selectedDistrictId]_vars

\* With nothing selected, a click on a district whose DISTRICT is the number
\* 3 failed, and the render made 3 the selection: no popup is open.
C22_Witness ==
    /\ Settled
    /\ lastEvent = "click"
    /\ error = "TypeError"
    /\ calls = {"effects"}
    /\ prevSel = Null
    /\ resolved.layer \in DistrictLayers
    /\ resolved.DISTRICT = Num(<<"3">>)
    /\ selectedDistrictId = Num(<<"3">>)
    /\ popup.kind = "none"


(***************************************************************************)
(* C23.  addMapSources followed by addMapLayers is idempotent over         *)
(* repeated runs on the same map: after any number of runs each of the 4   *)
(* sources and of the 6 layers exists exactly once, no call adds an id     *)
(* that exists, every layer added has a source that exists at the time of  *)
(* the call, and every before id passed to addLayer names a layer that     *)
(* exists at the time of the call; a run after the first adds nothing.     *)
(***************************************************************************)
\* Number of layers of the map with the id.
LayerCount(mp, id) ==
    Cardinality({k \in 1..Len(mp.order) : mp.order[k].id = id})

C23_SourcesAndLayersIdempotent ==
    arg.fn = "setup" =>
        \A i \in 1..Len(out) :
            /\ out[i].error = "none"
            /\ MapSources \subseteq out[i].sources
            /\ \A l \in AllLayers : LayerCount(out[i], l) = 1
            /\ \A k \in 1..Len(out[i].order) :
                   out[i].order[k].id \in AllLayers
                   => out[i].order[k].source \in out[i].sources
            /\ \A k \in 1..Len(out[i].log) :
                   /\ ~out[i].log[k].existed
                   /\ out[i].log[k].sourceExists
                   /\ out[i].log[k].beforeExists
            /\ \A k \in 1..Len(out[i].log) :
                   out[i].log[k].id \in {OregonTrailsLine, DistrictFill}
                   => out[i].log[k].before
                         = IF out[i].log[k].id = OregonTrailsLine
                           THEN RoadlessFill
                           ELSE DistrictLine
            /\ i > 1 => /\ out[i].log = <<>>
                        /\ out[i].sources = out[i - 1].sources
                        /\ out[i].order = out[i - 1].order

\* On a basemap of a background and a label layer the first run made its 4
\* addSource and 6 addLayer calls, the second run made none, and the layers
\* are in the order the before ids give.
C23_Witness ==
    /\ arg.fn = "setup"
    /\ arg.style = <<StyleLayer("background", "background", ""),
                     StyleLayer("place-label", "symbol", BaseSource)>>
    /\ Len(out) = 2
    /\ Len(out[1].log) = 10
    /\ out[2].log = <<>>
    /\ out[2].sources = MapSources \cup {BaseSource}
    /\ [k \in 1..Len(out[2].order) |-> out[2].order[k].id]
          = <<"background", OregonTrailsLine, RoadlessFill, RoadlessLine,
              PctLine, "place-label", DistrictFill, DistrictLine>>

=============================================================================
